---- MODULE Spec2Model ----
(***************************************************************************)
(* Character identification and occurrence unification                     *)
(* (src/features/char_id/character_identification.py and                   *)
(* src/features/char_id/_gender_annotation.py).                            *)
(*                                                                         *)
(* A name-string is modelled as the sequence of its tokens ("Mr. Holmes"   *)
(* is <<"Mr.", "Holmes">>): two name-strings are equal exactly when their  *)
(* token sequences are.  A Python dict is a sequence of entries in         *)
(* insertion order.                                                        *)
(***************************************************************************)
EXTENDS Naturals, Sequences, FiniteSets, TLC

VARIABLES
    doc,        \* self.doc: the PERSON entities of the parsed document, in order
    chars,      \* self.chars: None, or the store built by detect_characters
    annotated,  \* history: annotate_gender has completed on the current store
    called,     \* history: the public methods called so far
    ret,        \* the last public call, its inputs and what it returned or raised
    fusion,     \* the fusion loop of annotate_gender run on its own
    titleEst,   \* _annotate_gender_by_titiles run on its own
    nameEst,    \* _annotate_gender_by_names run on its own
    pronEst     \* _find_pronouns run on its own

vars == <<doc, chars, annotated, called, ret, fusion, titleEst, nameEst, pronEst>>

(***************************************************************************)
(* Bounds                                                                  *)
(***************************************************************************)
MaxEnts == 3
MaxPairs == 3
MaxMatches == 3
MaxTokens == 5

(***************************************************************************)
(* Generic helpers                                                         *)
(***************************************************************************)
Gender == {"MALE", "FEMALE", "UNKNOWN"}

RECURSIVE CountFrom(_, _, _)
CountFrom(s, x, i) ==
    IF i > Len(s) THEN 0
    ELSE (IF s[i] = x THEN 1 ELSE 0) + CountFrom(s, x, i + 1)

\* list.count(x)
Count(s, x) == CountFrom(s, x, 1)

Range(s) == {s[i] : i \in 1..Len(s)}

SeqsUpTo(S, n) == UNION {[1..m -> S] : m \in 0..n}

\* the elements of a set of naturals in increasing order
RECURSIVE SortedSeq(_)
SortedSeq(S) ==
    IF S = {} THEN <<>>
    ELSE LET m == CHOOSE x \in S : \A y \in S : x <= y
         IN <<m>> \o SortedSeq(S \ {m})

(***************************************************************************)
(* Tokens, titles, name parsing                                            *)
(***************************************************************************)
\* title.replace(".", "")
WithoutPeriod(t) ==
    CASE t = "Mr." -> "Mr"
      [] t = "Mrs." -> "Mrs"
      [] t = "Miss." -> "Miss"
      [] OTHER -> t

\* make_dataset.get_titles()
FemaleTitles == {"Mrs", "Miss"}
MaleTitles == {"Mr"}
Titles == FemaleTitles \cup MaleTitles

\* NameParser: title / first / last of a name-string
ParseName(name) ==
    LET hasTitle == Len(name) >= 1 /\ WithoutPeriod(name[1]) \in Titles
        rest == IF hasTitle THEN Tail(name) ELSE name
    IN [title |-> IF hasTitle THEN name[1] ELSE "",
        first |-> IF Len(rest) >= 1 THEN rest[1] ELSE "",
        last |-> IF Len(rest) >= 2 THEN rest[Len(rest)] ELSE ""]

\* Character(name): a new entity, no occurrence yet, gender not yet inferred
Character(name) ==
    [name |-> name, name_parsed |-> ParseName(name),
     occurences |-> <<>>, gender |-> "UNKNOWN"]

(***************************************************************************)
(* The store self.chars                                                    *)
(***************************************************************************)
NoChars == [isNone |-> TRUE, entries |-> <<>>]

Store(entries) == [isNone |-> FALSE, entries |-> entries]

\* list(self.chars.keys())
Keys(entries) == [i \in 1..Len(entries) |-> entries[i].name]

KeySet(entries) == {entries[i].name : i \in 1..Len(entries)}

\* self.chars[name]
Lookup(entries, name) ==
    entries[CHOOSE i \in 1..Len(entries) : entries[i].name = name]

\* len(self.chars[name].occurences)
Occ(entries, name) == Len(Lookup(entries, name).occurences)

(***************************************************************************)
(* detect_characters                                                       *)
(***************************************************************************)
\* the name under which an entity is stored: the title before it is prefixed
EntName(ent) ==
    IF WithoutPeriod(ent.prev) \in Titles THEN <<ent.prev>> \o ent.text
    ELSE ent.text

\* chars[name].append_occurences(ent.start), creating chars[name] if needed
AddOccurence(entries, name, pos) ==
    LET es == IF name \in KeySet(entries) THEN entries
              ELSE Append(entries, Character(name))
    IN [i \in 1..Len(es) |->
          IF es[i].name = name
          THEN [es[i] EXCEPT !.occurences = Append(@, pos)]
          ELSE es[i]]

RECURSIVE DetectLoop(_, _, _)
DetectLoop(d, i, entries) ==
    IF i > Len(d) THEN entries
    ELSE DetectLoop(d, i + 1, AddOccurence(entries, EntName(d[i]), i))

DetectedChars(d) == DetectLoop(d, 1, <<>>)

(***************************************************************************)
(* annotate_gender: the fusion of the three estimators                     *)
(***************************************************************************)
\* a mutation of Fuse: the pronoun result is used whenever the title and
\* name-list results are not both specified and equal
FuseAgreementOnly(gender_t, gender_n, gender_p) ==
    IF gender_t = gender_n /\ gender_t # "UNKNOWN" THEN gender_t ELSE gender_p

\* the body of the loop over self.chars
Fuse(gender_t, gender_n, gender_p) ==
    LET genders == <<gender_t, gender_n>>
        size == Len(genders) - Count(genders, "UNKNOWN")
    IN IF size = 0 THEN gender_p
       ELSE IF Count(genders, "FEMALE") = size THEN "FEMALE"
       ELSE IF Count(genders, "MALE") = size THEN "MALE"
       ELSE gender_p

\* ev[i] = <<title result, name-list result, pronoun result>> of entry i
AnnotatedChars(entries, ev) ==
    [i \in 1..Len(entries) |->
        [entries[i] EXCEPT !.gender = Fuse(ev[i][1], ev[i][2], ev[i][3])]]

(***************************************************************************)
(* unify_occurences: candidate referents and the constraint filter         *)
(*                                                                         *)
(* referents (ou.unify_referents()) has one item per name of the store, in *)
(* the order of the store: referents[i] is the candidate set of the i-th   *)
(* name.  A Python set is iterated here in the order of the store.         *)
(***************************************************************************)
\* the elements of a set of names, in the order of the store
SetAsSeq(entries, S) == SelectSeq(Keys(entries), LAMBDA n : n \in S)

\* chars_present = chars_all.intersection(chars_potential), for each name
PresentRefs(entries, referents) ==
    [i \in 1..Len(entries) |-> KeySet(entries) \cap referents[i]]

\* a mutation of gender_unmatch that follows its comment "if one of the two
\* is unknown, true"
gender_unmatch_unknown_true(gender1, gender2) ==
    LET genders == <<gender1, gender2>>
    IN IF Count(genders, "UNKNOWN") >= 1 THEN TRUE
       ELSE IF Count(genders, "FEMALE") = 2 \/ Count(genders, "MALE") = 2
            THEN FALSE
       ELSE TRUE

gender_unmatch(gender1, gender2) ==
    LET genders == <<gender1, gender2>>
    IN IF Count(genders, "UNKNOWN") >= 1 THEN FALSE
       ELSE IF Count(genders, "FEMALE") = 2 \/ Count(genders, "MALE") = 2
            THEN FALSE
       ELSE TRUE

\* both have a title, but they do not match
title_unmatch(title1, title2) ==
    (title1 # "" /\ title2 # "") /\ (title1 # title2)

\* the (name, ref) pairs appended to to_remove
ToRemove(entries, present) ==
    {p \in (1..Len(entries)) \X KeySet(entries) :
        /\ p[2] \in present[p[1]]
        /\ \/ gender_unmatch(entries[p[1]].gender, Lookup(entries, p[2]).gender)
           \/ title_unmatch(entries[p[1]].name_parsed.title,
                            Lookup(entries, p[2]).name_parsed.title)}

\* same_chars after same_chars[name].discard(ref) for every pair of to_remove
FilteredRefs(entries, referents) ==
    LET present == PresentRefs(entries, referents)
        to_remove == ToRemove(entries, present)
    IN [i \in 1..Len(entries) |->
          present[i] \ {ref \in present[i] : <<i, ref>> \in to_remove}]

(***************************************************************************)
(* unify_occurences: repeated referents                                    *)
(***************************************************************************)
\* repeated_referents[ref]: the names having ref in their set, in loop order
Claimants(entries, same, ref) ==
    LET idx == SelectSeq([i \in 1..Len(entries) |-> i], LAMBDA i : ref \in same[i])
    IN [n \in 1..Len(idx) |-> entries[idx[n]].name]

\* the keys left in repeated_referents once the unrepeated ones are popped
RepeatedRefs(entries, same) ==
    {ref \in KeySet(entries) : Len(Claimants(entries, same, ref)) >= 2}

\* a mutation of MaxNameLoop: "occ >= max_occurences", the last of the most
\* frequent names wins
RECURSIVE MaxNameLoopGE(_, _, _, _, _)
MaxNameLoopGE(entries, names, i, max_name, max_occurences) ==
    IF i > Len(names) THEN max_name
    ELSE LET occ == Occ(entries, names[i])
         IN IF occ >= max_occurences
            THEN MaxNameLoopGE(entries, names, i + 1, names[i], occ)
            ELSE MaxNameLoopGE(entries, names, i + 1, max_name, max_occurences)

\* for name in names: if occ > max_occurences: max_name, max_occurences = name, occ
RECURSIVE MaxNameLoop(_, _, _, _, _)
MaxNameLoop(entries, names, i, max_name, max_occurences) ==
    IF i > Len(names) THEN max_name
    ELSE LET occ == Occ(entries, names[i])
         IN IF occ > max_occurences
            THEN MaxNameLoop(entries, names, i + 1, names[i], occ)
            ELSE MaxNameLoop(entries, names, i + 1, max_name, max_occurences)

\* max_name = names[0]; max_occurences = 0; then the loop
MaxName(entries, names) == MaxNameLoop(entries, names, 1, names[1], 0)

\* one call char_groups.unite(a, b); ref is the referent the call is made
\* through (the empty name for a cross-name link)
UniteCall(kind, a, b, ref) == [kind |-> kind, a |-> a, b |-> b, ref |-> ref]

\* char_groups.unite(name, ref) for every referent that is not repeated
RECURSIVE UncontestedLoop(_, _, _, _)
UncontestedLoop(entries, same, repeated, i) ==
    IF i > Len(entries) THEN <<>>
    ELSE LET refs == SetAsSeq(entries, same[i] \ repeated)
         IN [n \in 1..Len(refs) |->
                UniteCall("uncontested", entries[i].name, refs[n], refs[n])]
            \o UncontestedLoop(entries, same, repeated, i + 1)

UncontestedUnites(entries, same) ==
    UncontestedLoop(entries, same, RepeatedRefs(entries, same), 1)

\* char_groups.unite(ref, max_name) for every repeated referent
ContestedUnites(entries, same) ==
    LET refs == SetAsSeq(entries, RepeatedRefs(entries, same))
    IN [n \in 1..Len(refs) |->
          UniteCall("contested", refs[n],
                    MaxName(entries, Claimants(entries, same, refs[n])), refs[n])]

(***************************************************************************)
(* unify_occurences: cross-name correspondence                             *)
(***************************************************************************)
\* l.count('') >= 2 for l = [first, last, title]
FewNameParts(p) == Count(<<p.first, p.last, p.title>>, "") >= 2

\* correnspondence[key].append(v) on a defaultdict(list)
DictAppend(d, key, v) ==
    IF \E n \in 1..Len(d) : d[n].key = key
    THEN [n \in 1..Len(d) |->
            IF d[n].key = key THEN [d[n] EXCEPT !.vals = Append(@, v)] ELSE d[n]]
    ELSE Append(d, [key |-> key, vals |-> <<v>>])

\* the tests between the two 'continue's and the appends
Corresponds(e1, e2) ==
    /\ e1.gender = e2.gender
    /\ ~title_unmatch(e1.name_parsed.title, e2.name_parsed.title)
    /\ \/ e1.name_parsed.first = e2.name_parsed.first
       \/ e1.name_parsed.last = e2.name_parsed.last

\* for char2 in charlist[i+1:]
RECURSIVE CorrInner(_, _, _, _)
CorrInner(entries, i, j, corr) ==
    IF j > Len(entries) THEN corr
    ELSE CorrInner(entries, i, j + 1,
            IF ~FewNameParts(entries[j].name_parsed) /\ Corresponds(entries[i], entries[j])
            THEN DictAppend(DictAppend(corr, entries[i].name, entries[j].name),
                            entries[j].name, entries[i].name)
            ELSE corr)

\* for i, char1 in enumerate(charlist[:-1])
RECURSIVE CorrOuter(_, _, _)
CorrOuter(entries, i, corr) ==
    IF i >= Len(entries) THEN corr
    ELSE CorrOuter(entries, i + 1,
            IF FewNameParts(entries[i].name_parsed) THEN corr
            ELSE CorrInner(entries, i, i + 1, corr))

Correspondence(entries) == CorrOuter(entries, 1, <<>>)

\* char_groups.unite(char1, max_name) for every item of correnspondence
CrossUnites(entries) ==
    LET corr == Correspondence(entries)
    IN [n \in 1..Len(corr) |->
          UniteCall("cross", corr[n].key, MaxName(entries, corr[n].vals), <<>>)]

(***************************************************************************)
(* CharacterGrouping: a partition of the names, as a set of groups         *)
(***************************************************************************)
\* a mutation of GroupingNames: the slice charlist[:-1], one name short
GroupingNamesShort(entries) ==
    {entries[i].name : i \in 1..Len(entries)} \ 
        (IF Len(entries) = 0 THEN {} ELSE {entries[Len(entries)].name})

\* the argument of CharacterGrouping(list(self.chars.keys()))
GroupingNames(entries) == KeySet(entries)

\* CharacterGrouping(names): every name in a group of its own
InitialGroups(names) == {{n} : n \in names}

\* unite(a, b): the groups of a and b become one
Unite(p, a, b) ==
    IF (\E g \in p : a \in g) /\ (\E g \in p : b \in g)
    THEN LET ga == CHOOSE g \in p : a \in g
             gb == CHOOSE g \in p : b \in g
         IN (p \ {ga, gb}) \cup {ga \cup gb}
    ELSE p

\* the partition at construction and after each unite of the sequence us
RECURSIVE PartsAfter(_, _, _)
PartsAfter(p, us, i) ==
    IF i > Len(us) THEN <<p>>
    ELSE <<p>> \o PartsAfter(Unite(p, us[i].a, us[i].b), us, i + 1)

(***************************************************************************)
(* The public calls                                                        *)
(***************************************************************************)
NoCall ==
    [call |-> "none", outcome |-> "none", wasAnnotated |-> FALSE,
     referents |-> <<>>, same_chars |-> <<>>, unites |-> <<>>,
     correnspondence |-> <<>>, parts |-> <<>>, groups |-> {}]

\* if self.chars is None: raise ValueError, in annotate_gender
annotate_precondition_fails(c) == c.isNone

\* a mutation of unify_precondition_fails: the check is missing
unify_precondition_never(c) == FALSE

\* if self.chars is None: raise ValueError, in unify_occurences
unify_precondition_fails(c) == c.isNone

\* what unify_occurences computes from the store and the referents
UnifyResult(entries, referents) ==
    LET same == FilteredRefs(entries, referents)
        unites == UncontestedUnites(entries, same)
                  \o ContestedUnites(entries, same)
                  \o CrossUnites(entries)
        parts == PartsAfter(InitialGroups(GroupingNames(entries)), unites, 1)
    IN [NoCall EXCEPT !.call = "unify_occurences", !.outcome = "ok",
                      !.referents = referents, !.same_chars = same,
                      !.correnspondence = Correspondence(entries),
                      !.unites = unites, !.parts = parts,
                      !.groups = parts[Len(parts)]]

(***************************************************************************)
(* Inputs                                                                  *)
(***************************************************************************)
Person(prev, text) == [prev |-> prev, text |-> text]

MrHolmes == <<"Mr.", "Holmes">>
MrsHudson == <<"Mrs.", "Hudson">>
SherlockHolmes == <<"Sherlock", "Holmes">>
MycroftHolmes == <<"Mycroft", "Holmes">>
\* a name-string that is in no document
Absent == <<"Moriarty">>

Mentions ==
    {Person("Mr.", <<"Holmes">>), Person("Mrs.", <<"Hudson">>),
     Person("said", SherlockHolmes)}

\* "Mr. Holmes" once, "Sherlock Holmes" five times, "Mycroft Holmes" twice
HolmesDoc ==
    <<Person("Mr.", <<"Holmes">>), Person("said", SherlockHolmes),
      Person("", MycroftHolmes), Person("", SherlockHolmes),
      Person("", SherlockHolmes), Person("", MycroftHolmes),
      Person("", SherlockHolmes), Person("", SherlockHolmes)>>

MrWatson == <<"Mr.", "Watson">>

\* "Mr. Holmes" and "Mr. Watson", once each
WatsonDoc == <<Person("Mr.", <<"Holmes">>), Person("Mr.", <<"Watson">>)>>

Docs == SeqsUpTo(Mentions, MaxEnts) \cup {HolmesDoc, WatsonDoc}

\* <<title result, name-list result, pronoun result>> given to the fusion
EvidenceCases ==
    {<<"MALE", "MALE", "FEMALE">>, <<"FEMALE", "UNKNOWN", "MALE">>,
     <<"UNKNOWN", "UNKNOWN", "UNKNOWN">>, <<"MALE", "FEMALE", "FEMALE">>}

\* the referent maps: at most MaxPairs candidate pairs, none of a name with
\* itself; the first name may also have a candidate that is not in the store
RefMaps(entries) ==
    LET cand == {p \in (1..Len(entries)) \X (KeySet(entries) \cup {Absent}) :
                    /\ p[2] # entries[p[1]].name
                    /\ p[2] = Absent => p[1] = 1}
    IN {[i \in 1..Len(entries) |-> {p[2] : p \in {q \in S : q[1] = i}}] :
          S \in {T \in SUBSET cand : Cardinality(T) <= MaxPairs}}

Idle == "idle"

(***************************************************************************)
(* Specification of the pipeline: one CharacterIdentification object over  *)
(* a document, each of its three public methods called at most once, in    *)
(* any order.                                                              *)
(***************************************************************************)
Init ==
    /\ doc \in Docs
    /\ chars = NoChars
    /\ annotated = FALSE
    /\ called = {}
    /\ ret = NoCall
    /\ fusion = Idle /\ titleEst = Idle /\ nameEst = Idle /\ pronEst = Idle

detect_characters ==
    /\ "detect_characters" \notin called
    /\ chars' = Store(DetectedChars(doc))
    /\ annotated' = FALSE
    /\ called' = called \cup {"detect_characters"}
    /\ ret' = [NoCall EXCEPT !.call = "detect_characters", !.outcome = "ok",
                             !.wasAnnotated = annotated]
    /\ UNCHANGED <<doc, fusion, titleEst, nameEst, pronEst>>

annotate_gender ==
    /\ "annotate_gender" \notin called
    /\ called' = called \cup {"annotate_gender"}
    /\ IF annotate_precondition_fails(chars)
       THEN /\ ret' = [NoCall EXCEPT !.call = "annotate_gender",
                                     !.outcome = "ValueError",
                                     !.wasAnnotated = annotated]
            /\ UNCHANGED <<chars, annotated>>
       ELSE \E ev \in [1..Len(chars.entries) -> EvidenceCases] :
            /\ chars' = Store(AnnotatedChars(chars.entries, ev))
            /\ annotated' = TRUE
            /\ ret' = [NoCall EXCEPT !.call = "annotate_gender", !.outcome = "ok",
                                     !.wasAnnotated = annotated]
    /\ UNCHANGED <<doc, fusion, titleEst, nameEst, pronEst>>

unify_occurences ==
    /\ "unify_occurences" \notin called
    /\ called' = called \cup {"unify_occurences"}
    /\ IF unify_precondition_fails(chars)
       THEN ret' = [NoCall EXCEPT !.call = "unify_occurences",
                                  !.outcome = "ValueError",
                                  !.wasAnnotated = annotated]
       ELSE \E referents \in RefMaps(chars.entries) :
            ret' = [UnifyResult(chars.entries, referents)
                        EXCEPT !.wasAnnotated = annotated]
    /\ UNCHANGED <<doc, chars, annotated, fusion, titleEst, nameEst, pronEst>>

Next == detect_characters \/ annotate_gender \/ unify_occurences

Spec == Init /\ [][Next]_vars

(***************************************************************************)
(* The fusion loop of annotate_gender on its own: a store of two names and *)
(* every combination of the three estimators' results for them.            *)
(***************************************************************************)
FusionNames == {MrHolmes, MrsHudson}

PipelineIdle ==
    /\ doc = <<>>
    /\ chars = NoChars
    /\ annotated = FALSE
    /\ called = {}
    /\ ret = NoCall

InitFusion ==
    /\ PipelineIdle
    /\ fusion \in [name_genders_title : [FusionNames -> Gender],
                   name_genders_name : [FusionNames -> Gender],
                   name_genders_pronoun : [FusionNames -> Gender],
                   gender : {[name \in FusionNames |-> "UNSET"]},
                   done : {FALSE}]
    /\ titleEst = Idle /\ nameEst = Idle /\ pronEst = Idle

\* for name in list(self.chars.keys()): ... update_gender(...)
fusion_loop ==
    /\ ~fusion.done
    /\ fusion' = [fusion EXCEPT
                    !.gender = [name \in FusionNames |->
                                  Fuse(fusion.name_genders_title[name],
                                       fusion.name_genders_name[name],
                                       fusion.name_genders_pronoun[name])],
                    !.done = TRUE]
    /\ UNCHANGED <<doc, chars, annotated, called, ret, titleEst, nameEst, pronEst>>

SpecFusion == InitFusion /\ [][fusion_loop]_vars

(***************************************************************************)
(* _annotate_gender_by_titiles on its own: a store of three names and the  *)
(* (title, name) matches of _match_gender_title.                           *)
(***************************************************************************)
\* str.lower() on the title tokens
Lower(t) ==
    CASE t = "Mr." -> "mr."
      [] t = "Mrs." -> "mrs."
      [] t = "Miss" -> "miss"
      [] t = "Mi" -> "mi"
      [] t = "She" -> "she"
      [] OTHER -> t

female_titles == {"mrs.", "mrs", "miss.", "miss", "mis.", "mis"}
male_titles == {"mr.", "mr"}

\* name_genders[name.text].append(...) for the matches whose name is a key
RECURSIVE TitleVotes(_, _, _, _)
TitleVotes(keys, title_name, name, n) ==
    IF n > Len(title_name) THEN <<>>
    ELSE LET m == title_name[n]
             vote == IF m.name \notin keys \/ m.name # name THEN <<>>
                     ELSE IF Lower(m.title) \in female_titles THEN <<"FEMALE">>
                     ELSE IF Lower(m.title) \in male_titles THEN <<"MALE">>
                     ELSE <<>>
         IN vote \o TitleVotes(keys, title_name, name, n + 1)

\* a mutation of TitleDecision: "gender.count("FEMALE") > size/2"
TitleDecisionStrict(gender) ==
    LET size == Len(gender)
    IN IF size = 0 THEN "UNKNOWN"
       ELSE IF 2 * Count(gender, "FEMALE") > size THEN "FEMALE"
       ELSE IF 2 * Count(gender, "MALE") >= size THEN "MALE"
       ELSE "LIST"

\* re-assign the most frequent gender; "LIST" stands for the vote list itself,
\* which is what name_genders[name] stays when no branch is taken
TitleDecision(gender) ==
    LET size == Len(gender)
    IN IF size = 0 THEN "UNKNOWN"
       ELSE IF 2 * Count(gender, "FEMALE") >= size THEN "FEMALE"
       ELSE IF 2 * Count(gender, "MALE") >= size THEN "MALE"
       ELSE "LIST"

TitleKeys == {<<"Holmes">>, <<"Adler">>, MrsHudson}

\* what the matcher can return: a title token and the proper nouns after it
TitleMatches ==
    [title : {"Mr.", "Mrs.", "Miss", "Mi"},
     name : {<<"Holmes">>, <<"Adler">>, <<"Hudson">>}]

InitTitles ==
    /\ PipelineIdle
    /\ titleEst \in [title_name : SeqsUpTo(TitleMatches, MaxMatches),
                     votes : {[name \in TitleKeys |-> <<>>]},
                     name_genders : {[name \in TitleKeys |-> "UNSET"]},
                     done : {FALSE}]
    /\ fusion = Idle /\ nameEst = Idle /\ pronEst = Idle

annotate_gender_by_titiles ==
    /\ ~titleEst.done
    /\ LET votes == [name \in TitleKeys |->
                        TitleVotes(TitleKeys, titleEst.title_name, name, 1)]
       IN titleEst' = [titleEst EXCEPT
                         !.votes = votes,
                         !.name_genders =
                             [name \in TitleKeys |-> TitleDecision(votes[name])],
                         !.done = TRUE]
    /\ UNCHANGED <<doc, chars, annotated, called, ret, fusion, nameEst, pronEst>>

SpecTitles == InitTitles /\ [][annotate_gender_by_titiles]_vars

(***************************************************************************)
(* _annotate_gender_by_names on its own: a store of four names and every   *)
(* pair of disjoint first-name lists over four first names.                *)
(***************************************************************************)
\* the name-strings of the first-name lists: one token each
FirstNames == {<<"Sherlock">>, <<"Irene">>, <<"Mycroft">>, <<"Martha">>}

NameKeys == {SherlockHolmes, MycroftHolmes, <<"Irene">>, <<"Mrs.", "Martha", "Hudson">>}

\* if name in male_names / elif name in female_names / else
NameListGender(name, male_names, female_names) ==
    IF name \in male_names THEN "MALE"
    ELSE IF name \in female_names THEN "FEMALE"
    ELSE "UNKNOWN"

InitNames ==
    /\ PipelineIdle
    /\ nameEst \in {e \in [male_names : SUBSET FirstNames,
                           female_names : SUBSET FirstNames,
                           name_genders : {[name \in NameKeys |-> "UNSET"]},
                           done : {FALSE}] :
                        e.male_names \cap e.female_names = {}}
    /\ fusion = Idle /\ titleEst = Idle /\ pronEst = Idle

annotate_gender_by_names ==
    /\ ~nameEst.done
    /\ nameEst' = [nameEst EXCEPT
                     !.name_genders =
                         [name \in NameKeys |->
                             NameListGender(name, nameEst.male_names,
                                            nameEst.female_names)],
                     !.done = TRUE]
    /\ UNCHANGED <<doc, chars, annotated, called, ret, fusion, titleEst, pronEst>>

SpecNames == InitNames /\ [][annotate_gender_by_names]_vars

(***************************************************************************)
(* _find_pronouns on its own: a document of at most MaxTokens tokens cut   *)
(* into sentences, and the occurrences of one name in it.  Token indices   *)
(* and the counters i and j start at 0, as in the source.                  *)
(***************************************************************************)
Vocabulary == {"Holmes", "he", "She"}

male_pronouns == {"he", "his", "him", "himself"}
female_pronouns == {"she", "her", "hers", "herself"}

\* the pronoun tokens of a sentence, in order
match_pronouns(sent) ==
    SelectSeq(sent, LAMBDA t : Lower(t) \in male_pronouns \cup female_pronouns)

\* list(self.doc.sents): the tokens cut after the positions of cuts
RECURSIVE Sentences(_, _)
Sentences(tokens, cuts) ==
    IF cuts = {} THEN <<tokens>>
    ELSE LET c == CHOOSE x \in cuts : \A y \in cuts : x <= y
         IN <<SubSeq(tokens, 1, c)>>
            \o Sentences(SubSeq(tokens, c + 1, Len(tokens)), {y - c : y \in cuts \ {c}})

\* the token indices (from 0) at which the name occurs
Occurrences(tokens) ==
    LET pos == SortedSeq({n \in 1..Len(tokens) : tokens[n] = "Holmes"})
    IN [k \in 1..Len(pos) |-> pos[k] - 1]

\* while start <= token_idx < end and i < len(token_idxes)-1
RECURSIVE FindInner(_, _, _, _, _, _)
FindInner(sent, token_idxes, start, end, i, mentions) ==
    IF /\ start <= token_idxes[i + 1]
       /\ token_idxes[i + 1] < end
       /\ i + 1 < Len(token_idxes)
    THEN FindInner(sent, token_idxes, start, end, i + 1,
                   mentions \o match_pronouns(sent))
    ELSE [i |-> i, mentions |-> mentions]

\* while j < len(list(self.doc.sents))-1
RECURSIVE FindOuter(_, _, _, _, _, _, _)
FindOuter(sents, token_idxes, i, j, start, end, mentions) ==
    IF ~(j + 1 < Len(sents)) THEN mentions
    ELSE LET start1 == IF j > 0 THEN start + Len(sents[j]) ELSE start
             end1 == end + Len(sents[j + 1])
             r == FindInner(sents[j + 1], token_idxes, start1, end1, i, mentions)
         IN FindOuter(sents, token_idxes, r.i, j + 1, start1, end1, r.mentions)

find_pronouns(sents, token_idxes) == FindOuter(sents, token_idxes, 0, 0, 0, 0, <<>>)

InitPronouns ==
    /\ PipelineIdle
    /\ \E tokens \in SeqsUpTo(Vocabulary, MaxTokens) :
         /\ "Holmes" \in Range(tokens)
         /\ \E cuts \in SUBSET (1..(Len(tokens) - 1)) :
              pronEst = [sents |-> Sentences(tokens, cuts),
                         token_idxes |-> Occurrences(tokens),
                         mentions |-> <<>>,
                         done |-> FALSE]
    /\ fusion = Idle /\ titleEst = Idle /\ nameEst = Idle

find_pronouns_call ==
    /\ ~pronEst.done
    /\ pronEst' = [pronEst EXCEPT
                     !.mentions = find_pronouns(pronEst.sents, pronEst.token_idxes),
                     !.done = TRUE]
    /\ UNCHANGED <<doc, chars, annotated, called, ret, fusion, titleEst, nameEst>>

SpecPronouns == InitPronouns /\ [][find_pronouns_call]_vars

(***************************************************************************)
(* Properties of the pipeline                                              *)
(***************************************************************************)
Unified == ret.call = "unify_occurences" /\ ret.outcome = "ok"

GenderConflict(g1, g2) == g1 # "UNKNOWN" /\ g2 # "UNKNOWN" /\ g1 # g2

\* C2 as stated: a call to unify_occurences made when annotate_gender has not
\* run fails with a state error and returns no groups.
C2_UnifyBeforeAnnotateFails ==
    (ret.call = "unify_occurences" /\ ~ret.wasAnnotated)
        => (ret.outcome = "ValueError" /\ ret.groups = {})

\* C2 amended: a call to unify_occurences fails with the state error, and
\* returns no groups, exactly when detect_characters has not run; whether
\* annotate_gender has run plays no part.
C2_UnifyFailsIffNotDetected ==
    ret.call = "unify_occurences"
        => /\ (ret.outcome = "ValueError") <=> ("detect_characters" \notin called)
           /\ (ret.outcome = "ok") <=> ("detect_characters" \in called)
           /\ ret.outcome = "ValueError" => (ret.groups = {} /\ ret.unites = <<>>)

\* C2 witness: unify_occurences called after detect_characters and before
\* annotate_gender returned groups.
C2_Witness ==
    /\ Unified
    /\ ~ret.wasAnnotated
    /\ "annotate_gender" \notin called
    /\ ret.groups # {}

HolmesReferents == <<{SherlockHolmes, MycroftHolmes}, {}, {}>>

\* C3 as stated: on the Holmes store (all MALE) with the referents
\* "Mr. Holmes" -> {"Sherlock Holmes", "Mycroft Holmes"}, unify_occurences
\* returns exactly {"Mr. Holmes", "Sherlock Holmes"} and {"Mycroft Holmes"}.
C3_HolmesGroups ==
    (/\ Unified
     /\ doc = HolmesDoc
     /\ \A i \in 1..Len(chars.entries) : chars.entries[i].gender = "MALE"
     /\ ret.referents = HolmesReferents)
        => ret.groups = {{MrHolmes, SherlockHolmes}, {MycroftHolmes}}

\* the indices of the unites issued through referent ref by the referent-link steps
ThroughReferent(ref) ==
    {n \in 1..Len(ret.unites) :
        /\ ret.unites[n].kind \in {"uncontested", "contested"}
        /\ ret.unites[n].ref = ref}

\* w is the position, among the claimants cl, of the first claimant with the
\* greatest number of occurrences
IsWinner(cl, w) ==
    /\ \A m \in 1..Len(cl) : Occ(chars.entries, cl[m]) <= Occ(chars.entries, cl[w])
    /\ \A m \in 1..(w - 1) : Occ(chars.entries, cl[m]) < Occ(chars.entries, cl[w])

\* C4: a referent left, after filtering, in the candidate sets of two or more
\* names is united exactly once through itself, with the claimant of greatest
\* occurrence count, the first-encountered one on a tie.
C4_RepeatedReferent ==
    Unified =>
        \A ref \in KeySet(chars.entries) :
            LET cl == Claimants(chars.entries, ret.same_chars, ref)
            IN Len(cl) >= 2 =>
                /\ Cardinality(ThroughReferent(ref)) = 1
                /\ \A n \in ThroughReferent(ref) :
                     \E w \in 1..Len(cl) :
                        /\ IsWinner(cl, w)
                        /\ {ret.unites[n].a, ret.unites[n].b} = {ref, cl[w]}

\* C4 witness: a contested referent won by its second claimant, which has
\* strictly more occurrences than the first, and another one kept by its
\* first claimant on a tie.
C4_Witness ==
    /\ Unified
    /\ \E ref \in KeySet(chars.entries) :
          LET cl == Claimants(chars.entries, ret.same_chars, ref)
          IN /\ Len(cl) = 2
             /\ Occ(chars.entries, cl[2]) > Occ(chars.entries, cl[1])
             /\ \E n \in ThroughReferent(ref) :
                    ret.unites[n].a = ref /\ ret.unites[n].b = cl[2]

\* C4 witness of the tie case
C4_TieReached ==
    /\ Unified
    /\ \E ref \in KeySet(chars.entries) :
          LET cl == Claimants(chars.entries, ret.same_chars, ref)
          IN /\ Len(cl) = 2
             /\ Occ(chars.entries, cl[2]) = Occ(chars.entries, cl[1])
             /\ \E n \in ThroughReferent(ref) :
                    ret.unites[n].a = ref /\ ret.unites[n].b = cl[1]

IsPartition(p, names) ==
    /\ UNION p = names
    /\ \A g \in p : g # {}
    /\ \A g, h \in p : g # h => g \cap h = {}

C10_NoGenderConflictInGroup ==
    Unified =>
        \A g \in ret.groups :
            \A a, b \in g :
                ~GenderConflict(Lookup(chars.entries, a).gender,
                                Lookup(chars.entries, b).gender)

\* the two names have the same non-empty first name or the same non-empty
\* last name
SharesNamePart(p1, p2) ==
    \/ p1.first # "" /\ p1.first = p2.first
    \/ p1.last # "" /\ p1.last = p2.last

\* C11 as stated: a correspondence between two distinct names is recorded
\* only if they have the same non-empty first name or the same non-empty
\* last name; "Mr. Holmes" and "Mr. Watson" never correspond.
C11_CorrespondenceSharesNamePart ==
    Unified =>
        \A n \in 1..Len(ret.correnspondence) :
            \A m \in 1..Len(ret.correnspondence[n].vals) :
                SharesNamePart(
                    Lookup(chars.entries, ret.correnspondence[n].key).name_parsed,
                    Lookup(chars.entries, ret.correnspondence[n].vals[m]).name_parsed)

(***************************************************************************)
(* Properties of the estimators and of the fusion                          *)
(***************************************************************************)
\* C1 as stated: the final gender is the title result T when T equals the
\* name-list result N and is not UNKNOWN, and the pronoun result P in every
\* other case, also when exactly one of T, N is UNKNOWN.
C1_FusionPronounUnlessAgreement ==
    fusion.done =>
        \A name \in FusionNames :
            LET T == fusion.name_genders_title[name]
                N == fusion.name_genders_name[name]
                P == fusion.name_genders_pronoun[name]
            IN fusion.gender[name] = IF T = N /\ T # "UNKNOWN" THEN T ELSE P

\* C1 amended: the final gender is T when T = N and T is not UNKNOWN; when
\* exactly one of T, N is UNKNOWN it is the other one; it is P when both are
\* UNKNOWN or when they disagree (one MALE, one FEMALE).
C1_FusionSpecifiedWins ==
    fusion.done =>
        \A name \in FusionNames :
            LET T == fusion.name_genders_title[name]
                N == fusion.name_genders_name[name]
                P == fusion.name_genders_pronoun[name]
                g == fusion.gender[name]
            IN /\ (T = N /\ T # "UNKNOWN") => g = T
               /\ (T = "UNKNOWN" /\ N # "UNKNOWN") => g = N
               /\ (T # "UNKNOWN" /\ N = "UNKNOWN") => g = T
               /\ (T = "UNKNOWN" /\ N = "UNKNOWN") => g = P
               /\ (T # "UNKNOWN" /\ N # "UNKNOWN" /\ T # N) => g = P

\* C1 witness: title FEMALE, name-list UNKNOWN, pronoun MALE was fused to
\* FEMALE, and a MALE/FEMALE disagreement was fused to the pronoun result.
C1_Witness ==
    /\ fusion.done
    /\ \E name \in FusionNames :
          /\ fusion.name_genders_title[name] = "FEMALE"
          /\ fusion.name_genders_name[name] = "UNKNOWN"
          /\ fusion.name_genders_pronoun[name] = "MALE"
          /\ fusion.gender[name] = "FEMALE"
    /\ \E name \in FusionNames :
          /\ fusion.name_genders_title[name] = "MALE"
          /\ fusion.name_genders_name[name] = "FEMALE"
          /\ fusion.name_genders_pronoun[name] = "UNKNOWN"
          /\ fusion.gender[name] = "UNKNOWN"

\* the pronouns of the sentence holding token index t (from 0)
RECURSIVE SentencePronouns(_, _, _, _)
SentencePronouns(sents, t, j, start) ==
    IF j > Len(sents) THEN <<>>
    ELSE IF t < start + Len(sents[j]) THEN match_pronouns(sents[j])
    ELSE SentencePronouns(sents, t, j + 1, start + Len(sents[j]))

\* the pronouns of each occurrence's sentence, once per occurrence
RECURSIVE TallyPerOccurrence(_, _, _)
TallyPerOccurrence(sents, token_idxes, k) ==
    IF k > Len(token_idxes) THEN <<>>
    ELSE SentencePronouns(sents, token_idxes[k], 1, 0)
         \o TallyPerOccurrence(sents, token_idxes, k + 1)

\* C7 as stated: the pronouns of the sentence of every occurrence (the last
\* one of the list and those of the last sentence included) are tallied
\* exactly once per occurrence.
C7_TallyOncePerOccurrence ==
    pronEst.done =>
        pronEst.mentions = TallyPerOccurrence(pronEst.sents, pronEst.token_idxes, 1)

\* C8: UNKNOWN on zero votes, FEMALE when the FEMALE votes are at least half
\* of the votes, MALE otherwise; the result is one of the three genders.
C8_TitleDecision ==
    titleEst.done =>
        \A name \in TitleKeys :
            LET v == titleEst.votes[name]
                g == titleEst.name_genders[name]
            IN /\ g \in Gender
               /\ Range(v) \subseteq {"FEMALE", "MALE"}
               /\ Len(v) = 0 => g = "UNKNOWN"
               /\ (Len(v) > 0 /\ 2 * Count(v, "FEMALE") >= Len(v)) => g = "FEMALE"
               /\ (Len(v) > 0 /\ 2 * Count(v, "FEMALE") < Len(v)) => g = "MALE"

\* C8 witness: a one-to-one tie decided FEMALE, a MALE majority decided MALE
\* and a name without votes left UNKNOWN.
C8_Witness ==
    /\ titleEst.done
    /\ \E name \in TitleKeys :
          /\ titleEst.votes[name] = <<"MALE", "FEMALE">>
          /\ titleEst.name_genders[name] = "FEMALE"
    /\ \E name \in TitleKeys :
          /\ titleEst.votes[name] = <<"MALE">>
          /\ titleEst.name_genders[name] = "MALE"
    /\ \E name \in TitleKeys :
          /\ titleEst.votes[name] = <<>>
          /\ titleEst.name_genders[name] = "UNKNOWN"

\* C9 as stated: the result is decided by the first token of the name: MALE
\* if it is in the male set, FEMALE if in the female set, UNKNOWN otherwise.
C9_FirstTokenLookup ==
    nameEst.done =>
        \A name \in NameKeys :
            nameEst.name_genders[name] =
                IF <<name[1]>> \in nameEst.male_names THEN "MALE"
                ELSE IF <<name[1]>> \in nameEst.female_names THEN "FEMALE"
                ELSE "UNKNOWN"

====
